---- MODULE Spec2Model ----
(***************************************************************************)
(* A model of the sales dashboards (sales_dashboard.py, dashboard.py):     *)
(* the Thursday-Wednesday sales-week calendar, the weekly commission       *)
(* table, the peak/slow slot classification and the slot-table loaders.    *)
(*                                                                         *)
(* Dates are proleptic Gregorian ordinals (Python's date.toordinal()).     *)
(* Money and rates are exact rationals kept as scaled integers; float      *)
(* rounding is not modelled.                                               *)
(***************************************************************************)
EXTENDS Integers, Sequences, FiniteSets, TLC

VARIABLES
    pc,                         \* position in the script run
    date_obj,                   \* argument of get_sales_week
    week_info,                  \* its result: [year, week_num, week_start, week_end]
    workbook,                   \* the sheets of the Excel file, in file order
    fin_df,                     \* the daily table returned by load_workbook
    weekly_data,                \* the weekly commission table
    getapp_cc_by_week,          \* manual GetApp credit-card entries, by week label
    sales_tax_by_week,          \* manual sales-tax entries, by week label
    ARAMARK_COMMISSION_RATE,    \* sidebar rates, in units of 1 / RateDen
    CREDIT_CARD_FEE_RATE,
    SALES_TAX_RATE,
    slots_df,                   \* the slot table returned by load_workbook
    fin_columns,                \* the columns of the daily table
    raised,                     \* the exception that ended the run, or ""
    week_row,                   \* the selected week and its percentages
    display_daily,              \* the daily detail table
    day_slots,                  \* the selected day's slot rows
    TOP_PEAK_PCT,               \* sidebar sliders, in whole percent
    BOTTOM_SLOW_PCT,
    peak_thresh,                \* the two quantiles, in hundredths
    slow_thresh,
    peaks,                      \* the peak and slow tables
    slows,
    day_data,                   \* dashboard.py: the selected day's traffic rows
    labeled,                    \* dashboard.py: the rows with their staffing label
    raw_df,                     \* one sheet as read: its workbook and its rows
    out,                        \* the table built by extract_timeslot_table
    clean,                      \* the table built by load_day_sheet
    files,                      \* the workbook stored under each path
    cache,                      \* st.cache_data: the tables kept under each argument
    returned,                   \* the argument and the tables of the last load
    sheet_raw,                  \* one sheet of key/value rows
    sheet_fin,                  \* its financial metrics
    sheet_payment               \* its payment buckets

weekVars == <<date_obj, week_info>>
weeklyVars == <<workbook, fin_df, weekly_data, getapp_cc_by_week, sales_tax_by_week,
                ARAMARK_COMMISSION_RATE, CREDIT_CARD_FEE_RATE, SALES_TAX_RATE,
                slots_df, fin_columns, raised, week_row, display_daily>>
slotVars == <<day_slots, TOP_PEAK_PCT, BOTTOM_SLOW_PCT, peak_thresh, slow_thresh,
              peaks, slows, day_data, labeled>>
sheetVars == <<raw_df, out, clean>>
cacheVars == <<files, cache, returned>>
scanVars == <<sheet_raw, sheet_fin, sheet_payment>>
vars == <<pc, weekVars, weeklyVars, slotVars, sheetVars, cacheVars, scanVars>>

(***************************************************************************)
(* Bounds of the model                                                     *)
(***************************************************************************)
FirstYear == 2000
LastYear == 2027

None == [none |-> TRUE]

\* The parts of the state a specification does not use stay unset
Idle(used) ==
    /\ IF used = "week" THEN TRUE ELSE date_obj = None /\ week_info = None
    /\ IF used = "weekly" THEN TRUE
       ELSE /\ workbook = None /\ fin_df = None /\ weekly_data = None
            /\ getapp_cc_by_week = None /\ sales_tax_by_week = None
            /\ ARAMARK_COMMISSION_RATE = None /\ CREDIT_CARD_FEE_RATE = None
            /\ SALES_TAX_RATE = None
            /\ slots_df = None /\ fin_columns = None /\ raised = None
            /\ week_row = None /\ display_daily = None
    /\ IF used = "slots" THEN TRUE
       ELSE /\ day_slots = None /\ TOP_PEAK_PCT = None /\ BOTTOM_SLOW_PCT = None
            /\ peak_thresh = None /\ slow_thresh = None /\ peaks = None /\ slows = None
            /\ day_data = None /\ labeled = None
    /\ IF used = "sheet" THEN TRUE ELSE raw_df = None /\ out = None /\ clean = None
    /\ IF used = "cache" THEN TRUE ELSE files = None /\ cache = None /\ returned = None
    /\ IF used = "scan" THEN TRUE
       ELSE sheet_raw = None /\ sheet_fin = None /\ sheet_payment = None

(***************************************************************************)
(* datetime: the calendar get_sales_week relies on                         *)
(***************************************************************************)
IsLeap(y) == (y % 4 = 0) /\ ((y % 100 # 0) \/ (y % 400 = 0))

DaysBeforeYear(y) ==
    (y - 1) * 365 + ((y - 1) \div 4) - ((y - 1) \div 100) + ((y - 1) \div 400)

DaysInMonth(y, m) ==
    IF m = 2 THEN (IF IsLeap(y) THEN 29 ELSE 28)
    ELSE IF m \in {4, 6, 9, 11} THEN 30 ELSE 31

RECURSIVE DaysBeforeMonth(_, _)
DaysBeforeMonth(y, m) ==
    IF m = 1 THEN 0 ELSE DaysBeforeMonth(y, m - 1) + DaysInMonth(y, m - 1)

\* datetime(y, m, d).toordinal()
Ordinal(y, m, d) == DaysBeforeYear(y) + DaysBeforeMonth(y, m) + d

\* date.year
YearOf(n) ==
    CHOOSE y \in (n \div 366)..((n \div 365) + 1) :
        DaysBeforeYear(y) < n /\ n <= DaysBeforeYear(y + 1)

\* date.month
MonthOf(n) ==
    LET y == YearOf(n)
    IN  CHOOSE m \in 1..12 :
            /\ Ordinal(y, m, 1) <= n
            /\ n < Ordinal(y, m, 1) + DaysInMonth(y, m)

\* date.day
DayOf(n) == n - Ordinal(YearOf(n), MonthOf(n), 1) + 1

\* date.weekday(): Monday = 0 ... Sunday = 6
Weekday(n) == (n + 6) % 7

(***************************************************************************)
(* get_sales_week                                                          *)
(***************************************************************************)
\* Week_End = Week_Start + timedelta(days=6)
WeekEnd(week_start) == week_start + 6

\* a slip of the weekday anchor: weeks would start on Friday
get_sales_week_friday(d) ==
    LET days_since_thursday == (Weekday(d) - 4) % 7
        week_start == d - days_since_thursday
        year == YearOf(week_start)
        jan_1 == Ordinal(year, 1, 1)
        days_since_jan_thursday == (Weekday(jan_1) - 3) % 7
        first_thursday == jan_1 - days_since_jan_thursday
    IN  IF week_start < first_thursday
        THEN [year |-> year - 1, week_num |-> 52, week_start |-> week_start]
        ELSE [year |-> year,
              week_num |-> ((week_start - first_thursday) \div 7) + 1,
              week_start |-> week_start]

get_sales_week(d) ==
    LET days_since_thursday == (Weekday(d) - 3) % 7
        week_start == d - days_since_thursday
        year == YearOf(week_start)
        jan_1 == Ordinal(year, 1, 1)
        days_since_jan_thursday == (Weekday(jan_1) - 3) % 7
        first_thursday == jan_1 - days_since_jan_thursday
    IN  IF week_start < first_thursday
        THEN [year |-> year - 1, week_num |-> 52, week_start |-> week_start]
        ELSE [year |-> year,
              week_num |-> ((week_start - first_thursday) \div 7) + 1,
              week_start |-> week_start]

(***************************************************************************)
(* Specification of the calendar: one date, one call                       *)
(***************************************************************************)

InitWeek ==
    /\ pc = "week_call"
    /\ date_obj \in Ordinal(FirstYear, 1, 1)..Ordinal(LastYear, 12, 31)
    /\ week_info = None
    /\ Idle("week")

\* week_info = get_sales_week(Date_Parsed); Week_End = Week_Start + 6 days
ApplySalesWeek ==
    /\ pc = "week_call"
    /\ LET w == get_sales_week(date_obj)
       IN  week_info' = [year |-> w.year, week_num |-> w.week_num,
                         week_start |-> w.week_start,
                         week_end |-> WeekEnd(w.week_start)]
    /\ pc' = "week_done"
    /\ UNCHANGED <<date_obj, weeklyVars, slotVars, sheetVars, cacheVars, scanVars>>

NextWeek == ApplySalesWeek

SpecWeek == InitWeek /\ [][NextWeek]_vars

(***************************************************************************)
(* Sales-week claims                                                       *)
(***************************************************************************)
\* The first Thursday on or after Jan 1 of year y
FirstThursdayOnOrAfter(y) ==
    LET jan_1 == Ordinal(y, 1, 1)
    IN  jan_1 + ((3 - Weekday(jan_1)) % 7)

\* C1: every date is numbered by the first-Thursday rule: week 1 of year Y
\* starts at the first Thursday on or after Jan 1 of Y, later weeks count up
\* by one per 7 days, and a date before that Thursday is week 52 of Y-1.
C1_FirstThursdayRule ==
    pc = "week_done" =>
        LET y == YearOf(date_obj)
            ft == FirstThursdayOnOrAfter(y)
        IN  IF date_obj >= ft
            THEN /\ week_info.year = y
                 /\ week_info.week_num = ((date_obj - ft) \div 7) + 1
            ELSE /\ week_info.year = y - 1
                 /\ week_info.week_num = 52

\* C2: the sales week of d contains d, starts on a Thursday, ends 6 days
\* after its start, and the week of d + 7 days starts exactly 7 days later.
C2_WeekWindow ==
    pc = "week_done" =>
        /\ week_info.week_start <= date_obj
        /\ date_obj <= week_info.week_end
        /\ Weekday(week_info.week_start) = 3
        /\ week_info.week_end = week_info.week_start + 6
        /\ get_sales_week(date_obj + 7).week_start = week_info.week_start + 7

\* A Wednesday Dec 31 has been placed in the week that began six days before
C2_Witness ==
    /\ pc = "week_done"
    /\ MonthOf(date_obj) = 12 /\ DayOf(date_obj) = 31
    /\ Weekday(date_obj) = 2
    /\ week_info.week_start = date_obj - 6

(***************************************************************************)
(* Text: a string is the sequence of its characters                        *)
(***************************************************************************)
UpperChars == <<"A", "B", "C", "D", "E", "F", "G", "H", "I", "J", "K", "L", "M", "N", "O", "P", "Q", "R", "S", "T", "U", "V", "W", "X", "Y", "Z">>
LowerChars == <<"a", "b", "c", "d", "e", "f", "g", "h", "i", "j", "k", "l", "m", "n", "o", "p", "q", "r", "s", "t", "u", "v", "w", "x", "y", "z">>
DigitChars == <<"0", "1", "2", "3", "4", "5", "6", "7", "8", "9">>
Whitespace == {" ", "\t", "\n"}

\* str.lower()
lower_char(c) ==
    IF \E i \in 1..Len(UpperChars) : UpperChars[i] = c
    THEN LowerChars[CHOOSE i \in 1..Len(UpperChars) : UpperChars[i] = c]
    ELSE c
str_lower(s) == [i \in 1..Len(s) |-> lower_char(s[i])]

\* str.strip()
RECURSIVE lstrip(_)
lstrip(s) == IF s # <<>> /\ Head(s) \in Whitespace THEN lstrip(Tail(s)) ELSE s
RECURSIVE rstrip(_)
rstrip(s) ==
    IF s # <<>> /\ s[Len(s)] \in Whitespace THEN rstrip(SubSeq(s, 1, Len(s) - 1)) ELSE s
str_strip(s) == rstrip(lstrip(s))

\* sub in s
contains(s, sub) ==
    \E i \in 1..(Len(s) - Len(sub) + 1) : SubSeq(s, i, i + Len(sub) - 1) = sub

\* Cells of a sheet: a number, a text, or empty (NaN)
Num(n) == [t |-> "num", n |-> n, s |-> ""]
Str(s) == [t |-> "str", n |-> 0, s |-> s]
NaN == [t |-> "nan", n |-> 0, s |-> ""]

\* the characters of the texts found in the sheets
Text ==
    ("" :> <<>>)
        @@ ("Time_slots" :> <<"T", "i", "m", "e", "_", "s", "l", "o", "t", "s">>)
        @@ ("Sales Net VAT" :> <<"S", "a", "l", "e", "s", " ", "N", "e", "t", " ", "V", "A", "T">>)
        @@ ("Transactions" :> <<"T", "r", "a", "n", "s", "a", "c", "t", "i", "o", "n", "s">>)
        @@ ("Time Slots" :> <<"T", "i", "m", "e", " ", "S", "l", "o", "t", "s">>)
        @@ ("Sales" :> <<"S", "a", "l", "e", "s">>)
        @@ ("time_slots" :> <<"t", "i", "m", "e", "_", "s", "l", "o", "t", "s">>)
        @@ ("Total" :> <<"T", "o", "t", "a", "l">>)
        @@ ("11:00 AM" :> <<"1", "1", ":", "0", "0", " ", "A", "M">>)
        @@ (" TOTAL " :> <<" ", "T", "O", "T", "A", "L", " ">>)
        @@ ("  " :> <<" ", " ">>)
        @@ ("x" :> <<"x">>)
        @@ ("11:45:00AM" :> <<"1", "1", ":", "4", "5", ":", "0", "0", "A", "M">>)
        @@ ("1:05PM" :> <<"1", ":", "0", "5", "P", "M">>)
        @@ (" total " :> <<" ", "t", "o", "t", "a", "l", " ">>)
        @@ ("Run Financial Control Report" :> <<"R", "u", "n", " ", "F", "i", "n", "a", "n", "c", "i", "a", "l", " ", "C", "o", "n", "t", "r", "o", "l", " ", "R", "e", "p", "o", "r", "t">>)
        @@ ("Gross Sales Before Discounts" :> <<"G", "r", "o", "s", "s", " ", "S", "a", "l", "e", "s", " ", "B", "e", "f", "o", "r", "e", " ", "D", "i", "s", "c", "o", "u", "n", "t", "s">>)
        @@ ("Total Discounts" :> <<"T", "o", "t", "a", "l", " ", "D", "i", "s", "c", "o", "u", "n", "t", "s">>)
        @@ ("Gross Sales After Discounts" :> <<"G", "r", "o", "s", "s", " ", "S", "a", "l", "e", "s", " ", "A", "f", "t", "e", "r", " ", "D", "i", "s", "c", "o", "u", "n", "t", "s">>)
        @@ ("Tax Collected" :> <<"T", "a", "x", " ", "C", "o", "l", "l", "e", "c", "t", "e", "d">>)
        @@ ("Tender Summary" :> <<"T", "e", "n", "d", "e", "r", " ", "S", "u", "m", "m", "a", "r", "y">>)
        @@ ("Payment Summary" :> <<"P", "a", "y", "m", "e", "n", "t", " ", "S", "u", "m", "m", "a", "r", "y">>)
        @@ ("Day Part Summary" :> <<"D", "a", "y", " ", "P", "a", "r", "t", " ", "S", "u", "m", "m", "a", "r", "y">>)
        @@ ("Credit Card" :> <<"C", "r", "e", "d", "i", "t", " ", "C", "a", "r", "d">>)
        @@ ("Cash" :> <<"C", "a", "s", "h">>)
        @@ (" Cash " :> <<" ", "C", "a", "s", "h", " ">>)
        @@ ("Cash Credit" :> <<"C", "a", "s", "h", " ", "C", "r", "e", "d", "i", "t">>)
        @@ ("Name" :> <<"N", "a", "m", "e">>)
        @@ ("Type" :> <<"T", "y", "p", "e">>)
        @@ ("Amount" :> <<"A", "m", "o", "u", "n", "t">>)
        @@ ("Date" :> <<"D", "a", "t", "e">>)
        @@ ("Day" :> <<"D", "a", "y">>)
        @@ ("Thursday" :> <<"T", "h", "u", "r", "s", "d", "a", "y">>)
        @@ ("2025-01-02" :> <<"2", "0", "2", "5", "-", "0", "1", "-", "0", "2">>)
        @@ ("2025-01-03" :> <<"2", "0", "2", "5", "-", "0", "1", "-", "0", "3">>)
        @@ ("2025-01-09" :> <<"2", "0", "2", "5", "-", "0", "1", "-", "0", "9">>)
        @@ ("2020-01-02" :> <<"2", "0", "2", "0", "-", "0", "1", "-", "0", "2">>)
        @@ ("2025-02-30" :> <<"2", "0", "2", "5", "-", "0", "2", "-", "3", "0">>)
        @@ ("n/a" :> <<"n", "/", "a">>)
        @@ ("Sheet1" :> <<"S", "h", "e", "e", "t", "1">>)
        @@ ("Sheet2" :> <<"S", "h", "e", "e", "t", "2">>)
        @@ ("Sheet3" :> <<"S", "h", "e", "e", "t", "3">>)
        @@ ("Sheet4" :> <<"S", "h", "e", "e", "t", "4">>)
        @@ ("run financial control report" :> <<"r", "u", "n", " ", "f", "i", "n", "a", "n", "c", "i", "a", "l", " ", "c", "o", "n", "t", "r", "o", "l", " ", "r", "e", "p", "o", "r", "t">>)
        @@ ("tender summary" :> <<"t", "e", "n", "d", "e", "r", " ", "s", "u", "m", "m", "a", "r", "y">>)
        @@ ("payment summary" :> <<"p", "a", "y", "m", "e", "n", "t", " ", "s", "u", "m", "m", "a", "r", "y">>)
        @@ ("day part summary" :> <<"d", "a", "y", " ", "p", "a", "r", "t", " ", "s", "u", "m", "m", "a", "r", "y">>)
        @@ ("day part" :> <<"d", "a", "y", " ", "p", "a", "r", "t">>)
        @@ ("tax collected" :> <<"t", "a", "x", " ", "c", "o", "l", "l", "e", "c", "t", "e", "d">>)
        @@ ("credit card" :> <<"c", "r", "e", "d", "i", "t", " ", "c", "a", "r", "d">>)
        @@ ("credit" :> <<"c", "r", "e", "d", "i", "t">>)
        @@ ("cash" :> <<"c", "a", "s", "h">>)
        @@ ("name" :> <<"n", "a", "m", "e">>)
        @@ ("type" :> <<"t", "y", "p", "e">>)
        @@ ("amount" :> <<"a", "m", "o", "u", "n", "t">>)
        @@ ("date" :> <<"d", "a", "t", "e">>)
        @@ ("day" :> <<"d", "a", "y">>)
        @@ ("run financial" :> <<"r", "u", "n", " ", "f", "i", "n", "a", "n", "c", "i", "a", "l">>)
        @@ ("1:05 PM" :> <<"1", ":", "0", "5", " ", "P", "M">>)
chars(s) == Text[s]

\* the text with these characters
token_of(cs) == CHOOSE s \in DOMAIN Text : Text[s] = cs

\* astype(str)
RECURSIVE digits_of(_)
digits_of(n) ==
    IF n < 10 THEN <<DigitChars[n + 1]>>
    ELSE digits_of(n \div 10) \o <<DigitChars[(n % 10) + 1]>>
astype_str(cell) ==
    IF cell.t = "str" THEN chars(cell.s)
    ELSE IF cell.t = "nan" THEN <<"n", "a", "n">>
    ELSE IF cell.n < 0 THEN <<"-">> \o digits_of(-cell.n) ELSE digits_of(cell.n)

\* int(s) of a text of digits
is_digits(s) == s # <<>> /\ \A i \in 1..Len(s) : \E d \in 1..10 : DigitChars[d] = s[i]
digit_value(c) == (CHOOSE d \in 1..10 : DigitChars[d] = c) - 1
RECURSIVE int_of(_)
int_of(s) ==
    IF s = <<>> THEN 0 ELSE 10 * int_of(SubSeq(s, 1, Len(s) - 1)) + digit_value(s[Len(s)])

\* pd.to_numeric(x, errors="coerce")
to_num(cell) == IF cell.t = "num" THEN cell ELSE NaN

\* fillna(0)
fillna0(cell) == IF cell.t = "nan" THEN 0 ELSE cell.n

(***************************************************************************)
(* extract_timeslot_table                                                  *)
(***************************************************************************)
\* a header cell or first-column cell, stripped and lower-cased
cell_key(cell) == str_lower(str_strip(astype_str(cell)))

is_time_key(k) == k \in {<<"t", "i", "m", "e", "_", "s", "l", "o", "t", "s">>, <<"t", "i", "m", "e", " ", "s", "l", "o", "t", "s">>}
is_sales_key(k) ==
    contains(k, <<"s", "a", "l", "e", "s", " ", "n", "e", "t", " ", "v", "a", "t">>) \/ contains(k, <<"a", "f", "t", "e", "r", " ", "d", "i", "s", "c", "o", "u", "n", "t">>) \/ k = <<"s", "a", "l", "e", "s">>
is_txn_key(k) ==
    contains(k, <<"t", "r", "a", "n", "s", "a", "c", "t", "i", "o", "n">>) \/ contains(k, <<"c", "h", "e", "c", "k", "s">>) \/ contains(k, <<"c", "o", "u", "n", "t">>)

\* the first row whose first cell is the slot-table marker, or 0 for None
\* the least of a set of row numbers, or 0 for None
first_of(hits) == IF hits = {} THEN 0 ELSE CHOOSE i \in hits : \A k \in hits : i <= k
find_table_start_row(grid) ==
    first_of({i \in 1..Len(grid) : is_time_key(cell_key(grid[i][1]))})

\* the branch of the if/elif chain a header key takes
key_kind_txn_as_sales(k) ==
    IF is_time_key(k) THEN "time"
    ELSE IF is_sales_key(k) \/ is_txn_key(k) THEN "sales" ELSE ""
key_kind(k) ==
    IF is_time_key(k) THEN "time"
    ELSE IF is_sales_key(k) THEN "sales"
    ELSE IF is_txn_key(k) THEN "txn"
    ELSE ""

\* the column the loop over the header keys leaves in a variable: the last
\* header cell of that kind, or 0 for None
last_of(hits) == IF hits = {} THEN 0 ELSE CHOOSE i \in hits : \A k \in hits : i >= k
last_col(header, kind) ==
    last_of({i \in 1..Len(header) : key_kind(cell_key(header[i])) = kind})

\* the lowered label compared with "total" without lower-casing it first
is_total_label_cased(label) == label = <<"t", "o", "t", "a", "l">>

\* Time_slot.str.lower().isin(["total"])
is_total_label(label) == str_lower(label) = <<"t", "o", "t", "a", "l">>

\* Time_slot.ne("") & Time_slot.ne("nan")
is_blank_label(label) == label = <<>> \/ label = <<"n", "a", "n">>

RECURSIVE GCD(_, _)
GCD(a, b) == IF a % b = 0 THEN b ELSE GCD(b, a % b)

\* a quotient in lowest terms, <<numerator, denominator>>
Ratio(n, d) == LET g == GCD(IF n < 0 THEN -n ELSE n, d) IN <<n \div g, d \div g>>

\* np.where(Transactions > 0, Sales / Transactions, 0.0)
avg_ticket(sales, txn) == IF txn > 0 THEN Ratio(sales, txn) ELSE <<0, 1>>

\* one row of out: the label, the two numbers and their ratio
out_row(label, sales, txn) ==
    [Time_slot |-> label, Sales |-> sales, Transactions |-> txn,
     Avg_Ticket |-> avg_ticket(sales, txn)]

\* out, from the rows under the header and the three columns found
out_rows(df, time_col, sales_col, txn_col) ==
    IF time_col = 0 \/ sales_col = 0 THEN <<>>
    ELSE SelectSeq([i \in 1..Len(df) |->
                       out_row(str_strip(astype_str(df[i][time_col])),
                               fillna0(to_num(df[i][sales_col])),
                               IF txn_col # 0 THEN fillna0(to_num(df[i][txn_col])) ELSE 0)],
                   LAMBDA r : ~is_blank_label(r.Time_slot) /\ ~is_total_label(r.Time_slot))

\* the table under the header row start, or the empty table for None
table_from(grid, start) ==
    IF start = 0 THEN <<>>
    ELSE out_rows(SubSeq(grid, start + 1, Len(grid)),
                  last_col(grid[start], "time"),
                  last_col(grid[start], "sales"),
                  last_col(grid[start], "txn"))

extract_timeslot_table(grid) == table_from(grid, find_table_start_row(grid))

(***************************************************************************)
(* The extractors of one sheet's key/value rows                            *)
(***************************************************************************)
\* k = str(row[col0]).strip() if pd.notna(row[col0]) else ""
key_text(cell) == IF cell.t = "nan" THEN <<>> ELSE str_strip(astype_str(cell))

\* str(row[col1]).strip()
value_text(cell) == token_of(str_strip(astype_str(cell)))

\* raw_df.shape[1] < 2
too_narrow(raw) == raw # <<>> /\ Len(raw[1]) < 2

\* extract_date_info: the loop, from row i on
RECURSIVE date_scan(_, _, _)
date_scan(raw, i, info) ==
    IF i > Len(raw) THEN info
    ELSE LET k == key_text(raw[i][1])
             k_lower == str_lower(k)
             found == IF k_lower = chars("date")
                      THEN ("date" :> value_text(raw[i][2])) @@ info
                      ELSE IF k_lower = chars("day")
                      THEN ("day_name" :> value_text(raw[i][2])) @@ info
                      ELSE info
         IN  IF k = <<>> THEN date_scan(raw, i + 1, info)
             ELSE IF contains(k_lower, chars("run financial"))
                     \/ contains(k_lower, chars("payment summary"))
             THEN found
             ELSE date_scan(raw, i + 1, found)

extract_date_info(raw) == IF too_narrow(raw) THEN <<>> ELSE date_scan(raw, 1, <<>>)

\* dict.get(key, default)
get(dict, key, default) == IF key \in DOMAIN dict THEN dict[key] ELSE default

\* extract_financial_metrics: the loop, from row i on
RECURSIVE control_scan(_, _, _, _)
control_scan(raw, i, in_control_section, metrics) ==
    IF i > Len(raw) THEN metrics
    ELSE LET k == key_text(raw[i][1])
             k_lower == str_lower(k)
             v_num == to_num(raw[i][2])
         IN  IF k = <<>> THEN control_scan(raw, i + 1, in_control_section, metrics)
             ELSE IF contains(k_lower, chars("run financial control report"))
             THEN control_scan(raw, i + 1, TRUE, metrics)
             ELSE IF contains(k_lower, chars("tender summary"))
                     \/ contains(k_lower, chars("payment summary"))
                     \/ contains(k_lower, chars("day part summary"))
             THEN metrics
             ELSE IF in_control_section /\ k_lower # chars("name") /\ v_num # NaN
             THEN LET kept == (token_of(k) :> v_num.n) @@ metrics
                      mirrored == IF contains(k_lower, chars("tax collected"))
                                  THEN ("Sales Tax Collected" :> v_num.n) @@ kept
                                  ELSE kept
                  IN  control_scan(raw, i + 1, in_control_section, mirrored)
             ELSE control_scan(raw, i + 1, in_control_section, metrics)

extract_financial_metrics(raw) ==
    IF too_narrow(raw) THEN <<>> ELSE control_scan(raw, 1, FALSE, <<>>)

\* the bucket a key adds to, with the test for "cash" made first
bucket_of_cash_first(k_lower) ==
    IF contains(k_lower, chars("cash")) THEN "Cash"
    ELSE IF contains(k_lower, chars("credit card")) \/ contains(k_lower, chars("credit"))
    THEN "Credit Card"
    ELSE ""

\* the bucket a key adds to: if "credit card" in k or "credit" in k, elif
\* "cash" in k; "" for neither
bucket_of(k_lower) ==
    IF contains(k_lower, chars("credit card")) \/ contains(k_lower, chars("credit"))
    THEN "Credit Card"
    ELSE IF contains(k_lower, chars("cash")) THEN "Cash"
    ELSE ""

\* extract_payment_data: the loop, from row i on
RECURSIVE tender_scan(_, _, _, _)
tender_scan(raw, i, in_tender_section, payments) ==
    IF i > Len(raw) THEN payments
    ELSE LET k == key_text(raw[i][1])
             k_lower == str_lower(k)
             v_num == to_num(raw[i][2])
         IN  IF k = <<>> THEN tender_scan(raw, i + 1, in_tender_section, payments)
             ELSE IF contains(k_lower, chars("tender summary"))
                     \/ contains(k_lower, chars("payment summary"))
             THEN tender_scan(raw, i + 1, TRUE, payments)
             ELSE IF in_tender_section /\ contains(k_lower, chars("day part"))
             THEN payments
             ELSE IF in_tender_section /\ k_lower \notin {chars("type"), chars("amount")}
                     /\ v_num # NaN
             THEN IF bucket_of(k_lower) # ""
                  THEN tender_scan(raw, i + 1, in_tender_section,
                           [payments EXCEPT ![bucket_of(k_lower)] = @ + v_num.n])
                  ELSE tender_scan(raw, i + 1, in_tender_section, payments)
             ELSE tender_scan(raw, i + 1, in_tender_section, payments)

no_payments == ("Credit Card" :> 0) @@ ("Cash" :> 0) @@ ("Sales Tax Collected" :> 0)

extract_payment_data(raw) ==
    IF too_narrow(raw) THEN no_payments ELSE tender_scan(raw, 1, FALSE, no_payments)

(***************************************************************************)
(* load_workbook: the daily table                                          *)
(***************************************************************************)
\* Rates are the sidebar percentages / 100.0, entered in steps of 0.5: a rate
\* is kept as a whole number of 1/200ths; money as whole 1/(200*200) dollars,
\* so that every product of an amount and two rates is exact.
RateDen == 200
Dollars(x) == x * RateDen * RateDen

\* amount * rate, for an amount that is a multiple of RateDen units
Mul(amount, rate) == (amount \div RateDen) * rate

\* Series.sum() of a column of slot rows
RECURSIVE sum_field(_, _)
sum_field(rows, f) == IF rows = <<>> THEN 0 ELSE Head(rows)[f] + sum_field(Tail(rows), f)

\* float division: <<numerator, denominator>> in lowest terms; <<1, 0>> and
\* <<-1, 0>> are the infinities, <<0, 0>> is NaN
float_div(n, d) ==
    IF d = 0 THEN <<IF n > 0 THEN 1 ELSE IF n < 0 THEN -1 ELSE 0, 0>>
    ELSE IF d < 0 THEN Ratio(-n, -d) ELSE Ratio(n, d)

\* pd.to_datetime(text, errors="coerce") of a year-month-day text: the
\* ordinal of the date, or 0 for NaT when the text holds no calendar date
to_datetime(text) ==
    LET s == chars(text)
    IN  IF /\ Len(s) = 10 /\ s[5] = "-" /\ s[8] = "-"
           /\ is_digits(SubSeq(s, 1, 4)) /\ is_digits(SubSeq(s, 6, 7))
           /\ is_digits(SubSeq(s, 9, 10))
        THEN LET y == int_of(SubSeq(s, 1, 4))
                 m == int_of(SubSeq(s, 6, 7))
                 d == int_of(SubSeq(s, 9, 10))
             IN  IF y >= 1 /\ m \in 1..12 /\ d \in 1..DaysInMonth(y, m)
                 THEN Ordinal(y, m, d) ELSE 0
        ELSE 0

\* fin_row = {"Sheet", "Date", "Day_Name", **fin, **payment}: a later key
\* replaces the same key before it
\* the dict literal of fin_row
day_row(sheet_name, date_info, fin, payment) ==
    payment @@ fin
        @@ ("Sheet" :> sheet_name)
        @@ ("Date" :> get(date_info, "date", sheet_name))
        @@ ("Day_Name" :> get(date_info, "day_name", ""))

fin_row(sheet) ==
    day_row(sheet.name, extract_date_info(sheet.raw),
            extract_financial_metrics(sheet.raw), extract_payment_data(sheet.raw))

\* the sheet's slot table, tagged with the sheet
\* slots["Sheet"] = sheet; slots["Date"] = date_info.get("date", sheet)
tagged(slots, sheet_name, date) ==
    [i \in 1..Len(slots) |->
        [Sheet |-> sheet_name,
         Date |-> date,
         Time_slot |-> slots[i].Time_slot,
         Sales |-> slots[i].Sales,
         Transactions |-> slots[i].Transactions,
         Avg_Ticket |-> slots[i].Avg_Ticket]]

sheet_slots(sheet) ==
    tagged(extract_timeslot_table(sheet.raw), sheet.name,
           get(extract_date_info(sheet.raw), "date", sheet.name))

\* pd.concat(days_slots, ignore_index=True)
RECURSIVE concat(_)
concat(tables) == IF tables = <<>> THEN <<>> ELSE Head(tables) \o concat(Tail(tables))

\* f"W{Week_Number:02d} ({Week_Start:%b %d}-{Week_End:%b %d})": the week
\* number and the month and day, without the year, of both ends
Week_Label(week_num, week_start, week_end) ==
    [num |-> week_num,
     start |-> <<MonthOf(week_start), DayOf(week_start)>>,
     end |-> <<MonthOf(week_end), DayOf(week_end)>>]

\* the week columns added to a daily row
\* the columns made from the tuple get_sales_week returns
week_columns(w) ==
    ("Week_Year" :> w.year) @@ ("Week_Number" :> w.week_num)
        @@ ("Week_Start" :> w.week_start) @@ ("Week_End" :> WeekEnd(w.week_start))
        @@ ("Week_Label" :> Week_Label(w.week_num, w.week_start, WeekEnd(w.week_start)))

with_week(row) == row @@ week_columns(get_sales_week(row["Date_Parsed"]))

\* sort_values("Date_Parsed")
RECURSIVE insert_by_date(_, _)
insert_by_date(row, rows) ==
    IF rows = <<>> THEN <<row>>
    ELSE IF row["Date_Parsed"] < Head(rows)["Date_Parsed"] THEN <<row>> \o rows
    ELSE <<Head(rows)>> \o insert_by_date(row, Tail(rows))

RECURSIVE sort_by_date(_)
sort_by_date(rows) ==
    IF rows = <<>> THEN <<>>
    ELSE insert_by_date(rows[Len(rows)], sort_by_date(SubSeq(rows, 1, Len(rows) - 1)))

\* the slot table with its parsed dates and week columns, NaT rows dropped
\* a slot row with Date_Parsed and the week columns of the slot table
slot_week_row(r, date_parsed, w) ==
    [Sheet |-> r.Sheet, Date |-> r.Date,
     Time_slot |-> r.Time_slot, Sales |-> r.Sales,
     Transactions |-> r.Transactions, Avg_Ticket |-> r.Avg_Ticket,
     Date_Parsed |-> date_parsed,
     Week_Year |-> w.year, Week_Number |-> w.week_num, Week_Start |-> w.week_start]

\* week_info_slots = slots_df["Date_Parsed"].apply(get_sales_week)
slot_with_week(r, date_parsed) == slot_week_row(r, date_parsed, get_sales_week(date_parsed))

\* slots_df["Date_Parsed"] = pd.to_datetime(slots_df["Date"], errors="coerce")
slot_weeks(kept) == [i \in 1..Len(kept) |-> slot_with_week(kept[i], to_datetime(kept[i].Date))]

slots_with_week(days_slots) ==
    slot_weeks(SelectSeq(days_slots, LAMBDA r : to_datetime(r.Date) # 0))

\* fin_df.merge(daily_from_slots, on="Date", how="left") for one daily row:
\* the sums over the slot rows of the row's Date, their ratio unless the
\* transactions sum to 0; nothing for a Date without slot rows
\* one row of daily_from_slots: Avg_Ticket_Day is NaN, here absent, when the
\* transactions sum to 0
daily_from_slots(sales, txns) ==
    IF txns = 0
    THEN ("Slot_Sales_Total" :> sales) @@ ("Slot_Transactions_Total" :> txns)
    ELSE ("Slot_Sales_Total" :> sales) @@ ("Slot_Transactions_Total" :> txns)
            @@ ("Avg_Ticket_Day" :> float_div(sales, txns))

\* the daily row merged with the sums of its group of slot rows
merge_group(row, group) ==
    IF group = <<>> THEN row
    ELSE row @@ daily_from_slots(sum_field(group, "Sales"), sum_field(group, "Transactions"))

merge_daily_from_slots(row, slots) ==
    merge_group(row, SelectSeq(slots, LAMBDA r : r.Date = row["Date"]))

SlotColumns == {"Slot_Sales_Total", "Slot_Transactions_Total", "Avg_Ticket_Day"}

\* fin_df["Date_Parsed"] = pd.to_datetime(fin_df["Date"], errors="coerce")
with_date_parsed(days_data) ==
    [i \in 1..Len(days_data) |->
        ("Date_Parsed" :> to_datetime(days_data[i]["Date"])) @@ days_data[i]]

\* the week columns on every row
with_weeks(sorted) == [i \in 1..Len(sorted) |-> with_week(sorted[i])]

\* dropna(subset=["Date_Parsed"]), sort_values("Date_Parsed"), week columns
week_rows(parsed) == with_weeks(sort_by_date(SelectSeq(parsed, LAMBDA r : r["Date_Parsed"] # 0)))

\* the columns of pd.DataFrame(days_data) and the date and week columns
columns_of(parsed) == UNION {DOMAIN parsed[i] : i \in 1..Len(parsed)} \cup
        {"Date_Parsed", "Week_Year", "Week_Number", "Week_Start", "Week_End", "Week_Label"}

\* fin_df.merge(daily_from_slots, on="Date", how="left") and the slot table
merged(weeks, slots) ==
    [raised |-> "",
     fin_df |-> [i \in 1..Len(weeks) |-> merge_daily_from_slots(weeks[i], slots)],
     slots_df |-> slots]

\* load_workbook: the daily table, its columns and the slot table; with no
\* row left after the NaT dates are dropped, the Week_Label assignment gets
\* a whole empty frame from apply(axis=1) and raises ValueError
tables(weeks, columns, days_slots) ==
    IF weeks = <<>>
    THEN [raised |-> "ValueError", fin_df |-> <<>>, columns |-> {}, slots_df |-> <<>>]
    ELSE IF days_slots = <<>>
    THEN [raised |-> "", fin_df |-> weeks, columns |-> columns, slots_df |-> <<>>]
    ELSE [columns |-> columns \cup SlotColumns] @@ merged(weeks, slots_with_week(days_slots))

\* the tables of the parsed daily rows and the concatenated slot rows
load_tables(parsed, days_slots) == tables(week_rows(parsed), columns_of(parsed), days_slots)

\* load_workbook
load_workbook(sheets) ==
    load_tables(with_date_parsed([i \in 1..Len(sheets) |-> fin_row(sheets[i])]),
                concat([i \in 1..Len(sheets) |-> sheet_slots(sheets[i])]))

(***************************************************************************)
(* The weekly commission table                                             *)
(***************************************************************************)
\* Series.sum() over the rows of one group: a missing value counts as 0
RECURSIVE sum_col(_, _)
sum_col(rows, c) ==
    IF rows = <<>> THEN 0
    ELSE (IF c \in DOMAIN Head(rows) THEN Head(rows)[c] ELSE 0) + sum_col(Tail(rows), c)

group_rows(df, label) == SelectSeq(df, LAMBDA r : r["Week_Label"] = label)

\* groupby("Week_Label").agg(...) for one label, Cash forced to 0.0 and the
\* two tax columns combined
weekly_aggregate(df, label) ==
    LET g == group_rows(df, label)
    IN  ("Week_Label" :> label)
        @@ ("Gross Sales Before Discounts" :> sum_col(g, "Gross Sales Before Discounts"))
        @@ ("Total Discounts" :> sum_col(g, "Total Discounts"))
        @@ ("Gross Sales After Discounts" :> sum_col(g, "Gross Sales After Discounts"))
        @@ ("Sales Net VAT" :> sum_col(g, "Sales Net VAT"))
        @@ ("Credit Card" :> sum_col(g, "Credit Card"))
        @@ ("Cash" :> 0)
        @@ ("Sales Tax Collected" :>
                sum_col(g, "Sales Tax Collected") + sum_col(g, "Tax Collected"))
        @@ ("Week_Start" :> g[1]["Week_Start"])
        @@ ("Week_End" :> g[1]["Week_End"])
        @@ ("Week_Number" :> g[1]["Week_Number"])

set_col(row, c, v) == (c :> v) @@ row

\* weekly_data.loc[mask, "Credit Card"] += cc_amount
apply_getapp_cc(row, getapp) ==
    IF row["Week_Label"] \in DOMAIN getapp
    THEN set_col(row, "Credit Card", row["Credit Card"] + getapp[row["Week_Label"]])
    ELSE row

\* the manual sales-tax entries, or with none at all the imputed fallback
apply_sales_tax(row, tax_by_week, tax_rate) ==
    IF DOMAIN tax_by_week # {}
    THEN IF row["Week_Label"] \in DOMAIN tax_by_week
         THEN set_col(row, "Sales Tax Collected", tax_by_week[row["Week_Label"]])
         ELSE row
    ELSE set_col(row, "Sales Tax Collected", Mul(row["Credit Card"], tax_rate))

\* the raw "Gross Sales Before Discounts" field used instead of the recomputed one
commission_raw_gross(row, commission_rate, fee_rate) ==
    LET gross == row["Gross Sales Before Discounts"]
        cc_fee == Mul(row["Credit Card"], fee_rate)
        commissionable == gross - cc_fee
        aramark == Mul(commissionable, commission_rate)
        niko == commissionable - aramark
    IN  ("Calculated_Gross_Before" :> gross)
        @@ ("CC_Fee" :> cc_fee)
        @@ ("Total_Commissionable" :> commissionable)
        @@ ("Aramark_Commission" :> aramark)
        @@ ("Total_ARA_Commission" :> aramark - row["Total Discounts"])
        @@ ("Niko_Commission" :> niko)
        @@ ("Total_Check_Niko" :> niko - row["Cash"] + row["Sales Tax Collected"])
        @@ row

\* the commission columns
commission(row, commission_rate, fee_rate) ==
    LET gross == row["Gross Sales After Discounts"] + row["Total Discounts"]
        cc_fee == Mul(row["Credit Card"], fee_rate)
        commissionable == gross - cc_fee
        aramark == Mul(commissionable, commission_rate)
        niko == commissionable - aramark
    IN  ("Calculated_Gross_Before" :> gross)
        @@ ("CC_Fee" :> cc_fee)
        @@ ("Total_Commissionable" :> commissionable)
        @@ ("Aramark_Commission" :> aramark)
        @@ ("Total_ARA_Commission" :> aramark - row["Total Discounts"])
        @@ ("Niko_Commission" :> niko)
        @@ ("Total_Check_Niko" :> niko - row["Cash"] + row["Sales Tax Collected"])
        @@ row

\* the GetApp amount added only after the commission columns were derived
weekly_row_late_cc(df, label, getapp, tax_by_week, commission_rate, fee_rate, tax_rate) ==
    apply_getapp_cc(
        commission(apply_sales_tax(weekly_aggregate(df, label), tax_by_week, tax_rate),
                   commission_rate, fee_rate),
        getapp)

\* one row of weekly_data: aggregate, manual entries, then the commission columns
weekly_row(df, label, getapp, tax_by_week, commission_rate, fee_rate, tax_rate) ==
    commission(
        apply_sales_tax(apply_getapp_cc(weekly_aggregate(df, label), getapp),
                        tax_by_week, tax_rate),
        commission_rate, fee_rate)

\* sort_values("Week_Start")
RECURSIVE sort_by_week_start(_)
sort_by_week_start(rows) ==
    IF rows = {} THEN <<>>
    ELSE LET m == CHOOSE x \in rows :
                      \A y \in rows : x["Week_Start"] <= y["Week_Start"]
         IN  <<m>> \o sort_by_week_start(rows \ {m})

week_labels(df) == {df[i]["Week_Label"] : i \in 1..Len(df)}

\* number_input > 0 stores an entry; 0.0 stores none
manual_entries(entered) ==
    [l \in {k \in DOMAIN entered : entered[k] > 0} |-> entered[l]]

(***************************************************************************)
(* Specification of one run of the weekly commission summary               *)
(***************************************************************************)
MaxSheets == 2

\* rows as read_excel returns them: a key, a value and one more column
kv(key, value) == <<Str(key), value, NaN>>

date_rows(text) == << kv("Date", Str(text)) >>

control_rows(gross_before, discounts, gross_after, net, tax) ==
    << kv("Run Financial Control Report", NaN),
       kv("Name", Str("Amount")),
       kv("Gross Sales Before Discounts", Num(Dollars(gross_before))),
       kv("Total Discounts", Num(Dollars(discounts))),
       kv("Gross Sales After Discounts", Num(Dollars(gross_after))),
       kv("Sales Net VAT", Num(Dollars(net))),
       kv("Tax Collected", Num(Dollars(tax))) >>

tender_rows(credit, cash) ==
    << kv("Tender Summary", NaN),
       kv("Type", Str("Amount")),
       kv("Credit Card", Num(Dollars(credit))),
       kv("Cash", Num(Dollars(cash))),
       kv("Day Part Summary", NaN) >>

\* the sheets' control and tender sections, in whole dollars
SheetKinds ==
    { control_rows(1100, 100, 1000, 1000, 0) \o tender_rows(500, 0),
      control_rows(420, 10, 400, 376, 24) \o tender_rows(300, 100) }

\* Thu Jan 2 and Fri Jan 3 2025 (one sales week), Thu Jan 9 2025 (the next),
\* Thu Jan 2 2020

Sheets ==
    { date_rows(d) \o k : d \in {"2025-01-02", "2025-01-03", "2025-01-09", "2020-01-02"},
                          k \in SheetKinds }

\* xls.sheet_names

\* the sheets of a workbook, named in file order
named(raws) == [i \in 1..Len(raws) |-> [name |-> <<"Sheet1", "Sheet2", "Sheet3", "Sheet4">>[i], raw |-> raws[i]]]

Workbooks == UNION { { named(raws) : raws \in [1..n -> Sheets] } : n \in 1..MaxSheets }


InitWeekly ==
    /\ pc = "load"
    /\ workbook \in Workbooks
    /\ fin_df = None /\ weekly_data = None
    /\ getapp_cc_by_week = None /\ sales_tax_by_week = None
    /\ ARAMARK_COMMISSION_RATE = None /\ CREDIT_CARD_FEE_RATE = None
    /\ SALES_TAX_RATE = None
    /\ slots_df = None /\ fin_columns = None /\ raised = ""
    /\ week_row = None /\ display_daily = None
    /\ Idle("weekly")

\* fin_df, slots_df = load_workbook(str(file_path))
LoadWorkbook ==
    /\ pc = "load"
    /\ LET loaded == load_workbook(workbook)
       IN  IF loaded.raised # ""
           THEN /\ raised' = loaded.raised
                /\ pc' = "raised"
                /\ UNCHANGED <<fin_df, slots_df, fin_columns>>
           ELSE /\ fin_df' = loaded.fin_df
                /\ slots_df' = loaded.slots_df
                /\ fin_columns' = loaded.columns
                /\ pc' = "weekly"
                /\ UNCHANGED raised
    /\ UNCHANGED <<workbook, weekly_data, getapp_cc_by_week, sales_tax_by_week,
                   ARAMARK_COMMISSION_RATE, CREDIT_CARD_FEE_RATE, SALES_TAX_RATE,
                   week_row, display_daily, weekVars, slotVars, sheetVars, cacheVars, scanVars>>

\* the columns named in groupby("Week_Label").agg({...})

\* The weekly commission summary of one script run: the sidebar rates and the
\* manual entries of every week as they stand, the table derived from them;
\* agg raises KeyError for a named column the daily table does not have
WeeklyCommission ==
    /\ pc = "weekly"
    /\ IF {"Gross Sales Before Discounts", "Total Discounts", "Gross Sales After Discounts",
          "Sales Net VAT", "Credit Card", "Cash", "Sales Tax Collected", "Tax Collected",
          "Week_Start", "Week_End", "Week_Number"} \subseteq fin_columns
       THEN \E rate \in {40, 100}, fee \in {6, 5}, tax \in {16},
               manual_cc \in [week_labels(fin_df) -> {0, Dollars(200)}],
               manual_tax \in [week_labels(fin_df) -> {0, Dollars(40)}] :
                 /\ ARAMARK_COMMISSION_RATE' = rate
                 /\ CREDIT_CARD_FEE_RATE' = fee
                 /\ SALES_TAX_RATE' = tax
                 /\ getapp_cc_by_week' = manual_entries(manual_cc)
                 /\ sales_tax_by_week' = manual_entries(manual_tax)
                 /\ weekly_data' = sort_by_week_start(
                        { weekly_row(fin_df, l, manual_entries(manual_cc),
                                     manual_entries(manual_tax), rate, fee, tax) :
                          l \in week_labels(fin_df) })
                 /\ pc' = "weekly_done"
                 /\ UNCHANGED raised
       ELSE /\ raised' = "KeyError"
            /\ pc' = "raised"
            /\ UNCHANGED <<weekly_data, getapp_cc_by_week, sales_tax_by_week,
                           ARAMARK_COMMISSION_RATE, CREDIT_CARD_FEE_RATE, SALES_TAX_RATE>>
    /\ UNCHANGED <<workbook, fin_df, slots_df, fin_columns, week_row, display_daily,
                   weekVars, slotVars, sheetVars, cacheVars, scanVars>>

\* x * 100 of a float
times_100(x) == IF x[2] = 0 THEN x ELSE Ratio(100 * x[1], x[2])

\* (a / b * 100)
percent(a, b) == times_100(float_div(a, b))

\* Series.pct_change() * 100 at position i of a column of the weekly table
pct_change_100(rows, c, i) ==
    IF i = 1 THEN <<0, 0>>
    ELSE percent(rows[i][c] - rows[i - 1][c], rows[i - 1][c])

\* the percentages shown with the selected week
selected_week_row(row) ==
    [Week_Label |-> row["Week_Label"],
     ARA_of_Commissionable |->
         percent(row["Total_ARA_Commission"], row["Total_Commissionable"]),
     Niko_of_Sales |-> percent(row["Total_Check_Niko"], row["Sales Net VAT"]),
     ARA_of_Sales |-> percent(row["Total_ARA_Commission"], row["Sales Net VAT"]),
     CC_Fee_of_Sales |-> percent(row["CC_Fee"], row["Sales Net VAT"])]

\* the three trend columns of the weekly table
with_trends(rows) ==
    [i \in 1..Len(rows) |->
        ("WoW_Sales_Growth" :> pct_change_100(rows, "Sales Net VAT", i))
        @@ ("WoW_Txn_Growth" :> pct_change_100(rows, "Gross Sales After Discounts", i))
        @@ ("Discount_Rate" :>
                percent(rows[i]["Total Discounts"], rows[i]["Gross Sales Before Discounts"]))
        @@ rows[i]]

\* the selected week's summary, then the weekly trend columns
WeeklyTrends ==
    /\ pc = "weekly_done"
    /\ \E i \in 1..Len(weekly_data) : week_row' = selected_week_row(weekly_data[i])
    /\ weekly_data' = with_trends(weekly_data)
    /\ pc' = "trends_done"
    /\ UNCHANGED <<workbook, fin_df, getapp_cc_by_week, sales_tax_by_week,
                   ARAMARK_COMMISSION_RATE, CREDIT_CARD_FEE_RATE, SALES_TAX_RATE,
                   slots_df, fin_columns, raised, display_daily,
                   weekVars, slotVars, sheetVars, cacheVars, scanVars>>

\* the columns selected for the daily detail table

\* Total Discounts / Gross Sales Before Discounts.replace(0, np.nan) * 100;
\* a metric the day's sheet lacks is NaN
daily_discount_rate(row) ==
    IF /\ "Total Discounts" \in DOMAIN row
       /\ "Gross Sales Before Discounts" \in DOMAIN row
       /\ row["Gross Sales Before Discounts"] # 0
    THEN percent(row["Total Discounts"], row["Gross Sales Before Discounts"])
    ELSE <<0, 0>>

\* the daily detail table; the column selection raises KeyError for a
\* column the daily table does not have
DailyDetails ==
    /\ pc = "trends_done"
    /\ IF {"Date", "Day_Name", "Week_Label", "Gross Sales Before Discounts", "Total Discounts",
          "Gross Sales After Discounts", "Sales Net VAT", "Credit Card", "Cash"} \subseteq fin_columns
       THEN /\ display_daily' =
                   [i \in 1..Len(fin_df) |->
                       [Date |-> fin_df[i]["Date"],
                        Week |-> fin_df[i]["Week_Label"],
                        Discount_Rate |-> daily_discount_rate(fin_df[i])]]
            /\ pc' = "daily_done"
            /\ UNCHANGED raised
       ELSE /\ raised' = "KeyError"
            /\ pc' = "raised"
            /\ UNCHANGED display_daily
    /\ UNCHANGED <<workbook, fin_df, weekly_data, getapp_cc_by_week, sales_tax_by_week,
                   ARAMARK_COMMISSION_RATE, CREDIT_CARD_FEE_RATE, SALES_TAX_RATE,
                   slots_df, fin_columns, week_row, weekVars, slotVars, sheetVars, cacheVars, scanVars>>

NextWeekly == LoadWorkbook \/ WeeklyCommission \/ WeeklyTrends \/ DailyDetails

SpecWeekly == InitWeekly /\ [][NextWeekly]_vars

(***************************************************************************)
(* Weekly commission claims                                                *)
(***************************************************************************)
weekly_rows == {weekly_data[j] : j \in 1..Len(weekly_data)}
days_of_week_start(ws) == SelectSeq(fin_df, LAMBDA r : r["Week_Start"] = ws)
entry_or_zero(entries, label) == IF label \in DOMAIN entries THEN entries[label] ELSE 0

\* C3: the weekly table has exactly one row per sales week: daily records
\* share a weekly row if and only if they share the sales-week start, so each
\* sales week has a row holding the sums of exactly its own days.
C3_OneRowPerSalesWeek ==
    pc = "weekly_done" =>
        /\ \A i, k \in 1..Len(fin_df) :
              (fin_df[i]["Week_Label"] = fin_df[k]["Week_Label"])
                  <=> (fin_df[i]["Week_Start"] = fin_df[k]["Week_Start"])
        /\ Len(weekly_data) = Cardinality({fin_df[i]["Week_Start"] : i \in 1..Len(fin_df)})
        /\ \A i \in 1..Len(fin_df) :
              \E w \in weekly_rows :
                  /\ w["Week_Start"] = fin_df[i]["Week_Start"]
                  /\ w["Gross Sales After Discounts"] =
                         sum_col(days_of_week_start(fin_df[i]["Week_Start"]),
                                 "Gross Sales After Discounts")

\* C4: for every week, independently of the other weeks, the sales tax
\* collected is the week's manual entry when one is supplied, and otherwise
\* the week's credit-card sales times the sales-tax rate.
C4_SalesTaxPerWeek ==
    pc = "weekly_done" =>
        \A w \in weekly_rows :
            IF w["Week_Label"] \in DOMAIN sales_tax_by_week
            THEN w["Sales Tax Collected"] = sales_tax_by_week[w["Week_Label"]]
            ELSE w["Sales Tax Collected"] = Mul(w["Credit Card"], SALES_TAX_RATE)

\* C5: every week's commission fields follow the ledger formulas with cash
\* forced to 0, and the scenario 1000 / 100 / 500 at 20% and 3% with a tax
\* entry of 40 gives 1100, 15, 1085, 217, 117, 868, 908.
C5_CommissionFormulas ==
    pc = "weekly_done" =>
        \A w \in weekly_rows :
            /\ w["Cash"] = 0
            /\ w["Calculated_Gross_Before"] =
                   w["Gross Sales After Discounts"] + w["Total Discounts"]
            /\ w["CC_Fee"] = Mul(w["Credit Card"], CREDIT_CARD_FEE_RATE)
            /\ w["Total_Commissionable"] = w["Calculated_Gross_Before"] - w["CC_Fee"]
            /\ w["Aramark_Commission"] =
                   Mul(w["Total_Commissionable"], ARAMARK_COMMISSION_RATE)
            /\ w["Total_ARA_Commission"] = w["Aramark_Commission"] - w["Total Discounts"]
            /\ w["Niko_Commission"] = w["Total_Commissionable"] - w["Aramark_Commission"]
            /\ w["Total_Check_Niko"] =
                   w["Niko_Commission"] - w["Cash"] + w["Sales Tax Collected"]
            /\ ( /\ w["Gross Sales After Discounts"] = Dollars(1000)
                 /\ w["Total Discounts"] = Dollars(100)
                 /\ w["Credit Card"] = Dollars(500)
                 /\ ARAMARK_COMMISSION_RATE = 40 /\ CREDIT_CARD_FEE_RATE = 6
                 /\ w["Sales Tax Collected"] = Dollars(40) )
               => ( /\ w["Calculated_Gross_Before"] = Dollars(1100)
                    /\ w["CC_Fee"] = Dollars(15)
                    /\ w["Total_Commissionable"] = Dollars(1085)
                    /\ w["Aramark_Commission"] = Dollars(217)
                    /\ w["Total_ARA_Commission"] = Dollars(117)
                    /\ w["Niko_Commission"] = Dollars(868)
                    /\ w["Total_Check_Niko"] = Dollars(908) )

\* The scenario's week, its 40 dollars of sales tax entered by hand, and a
\* second week whose days carried cash
C5_Witness ==
    /\ pc = "weekly_done"
    /\ ARAMARK_COMMISSION_RATE = 40 /\ CREDIT_CARD_FEE_RATE = 6
    /\ \E w \in weekly_rows :
          /\ w["Gross Sales After Discounts"] = Dollars(1000)
          /\ w["Total Discounts"] = Dollars(100)
          /\ w["Credit Card"] = Dollars(500)
          /\ w["Week_Label"] \in DOMAIN sales_tax_by_week
          /\ w["Sales Tax Collected"] = Dollars(40)
          /\ w["Total_Check_Niko"] = Dollars(908)
    /\ \E i \in 1..Len(fin_df) : fin_df[i]["Cash"] > 0

\* C6: a week's GetApp amount is added to that week's loaded credit-card
\* total, and to no other week's, before the fee, the commissionable base,
\* both commissions and both net amounts are derived from it.
C6_OverridesBeforeDerived ==
    pc = "weekly_done" =>
        \A w \in weekly_rows :
            LET l == w["Week_Label"]
                loaded == sum_col(group_rows(fin_df, l), "Credit Card")
                cc == loaded + entry_or_zero(getapp_cc_by_week, l)
                fee == Mul(cc, CREDIT_CARD_FEE_RATE)
                base == w["Gross Sales After Discounts"] + w["Total Discounts"] - fee
                aramark == Mul(base, ARAMARK_COMMISSION_RATE)
            IN  /\ w["Credit Card"] = cc
                /\ w["CC_Fee"] = fee
                /\ w["Total_Commissionable"] = base
                /\ w["Aramark_Commission"] = aramark
                /\ w["Total_ARA_Commission"] = aramark - w["Total Discounts"]
                /\ w["Niko_Commission"] = base - aramark
                /\ w["Total_Check_Niko"] = base - aramark + w["Sales Tax Collected"]
                /\ DOMAIN sales_tax_by_week = {} =>
                       w["Sales Tax Collected"] = Mul(cc, SALES_TAX_RATE)

\* Two weeks, a GetApp amount entered for the first only
C6_Witness ==
    /\ pc = "weekly_done"
    /\ Len(weekly_data) = 2
    /\ DOMAIN getapp_cc_by_week = {weekly_data[1]["Week_Label"]}
    /\ weekly_data[1]["Credit Card"] =
           sum_col(group_rows(fin_df, weekly_data[1]["Week_Label"]), "Credit Card")
               + Dollars(200)
    /\ weekly_data[2]["Credit Card"] =
           sum_col(group_rows(fin_df, weekly_data[2]["Week_Label"]), "Credit Card")
    /\ weekly_data[1]["CC_Fee"] > 0

(***************************************************************************)
(* Peak and slow slots of the selected day                                 *)
(***************************************************************************)
\* sort_values("Sales", ascending=True)
RECURSIVE insert_ascending(_, _)
insert_ascending(row, rows) ==
    IF rows = <<>> THEN <<row>>
    ELSE IF row.Sales < Head(rows).Sales THEN <<row>> \o rows
    ELSE <<Head(rows)>> \o insert_ascending(row, Tail(rows))

RECURSIVE sort_ascending(_)
sort_ascending(rows) ==
    IF rows = <<>> THEN <<>>
    ELSE insert_ascending(rows[Len(rows)], sort_ascending(SubSeq(rows, 1, Len(rows) - 1)))

\* sort_values("Sales", ascending=False)
RECURSIVE insert_descending(_, _)
insert_descending(row, rows) ==
    IF rows = <<>> THEN <<row>>
    ELSE IF row.Sales > Head(rows).Sales THEN <<row>> \o rows
    ELSE <<Head(rows)>> \o insert_descending(row, Tail(rows))

RECURSIVE sort_descending(_)
sort_descending(rows) ==
    IF rows = <<>> THEN <<>>
    ELSE insert_descending(rows[Len(rows)], sort_descending(SubSeq(rows, 1, Len(rows) - 1)))

\* the lower neighbour taken instead of interpolating between the two
quantile_lower(rows, pct) ==
    LET sorted == sort_ascending(rows)
        pos == pct * (Len(sorted) - 1)
        lo == (pos \div 100) + 1
    IN  100 * sorted[lo].Sales

\* Series.quantile(pct / 100), linear interpolation, in hundredths: at the
\* virtual index pct/100 * (n - 1) of the sorted values
quantile(rows, pct) ==
    LET sorted == sort_ascending(rows)
        pos == pct * (Len(sorted) - 1)
        lo == (pos \div 100) + 1
        hi == IF lo < Len(sorted) THEN lo + 1 ELSE lo
    IN  100 * sorted[lo].Sales + (pos % 100) * (sorted[hi].Sales - sorted[lo].Sales)

\* the top percentage itself used as the quantile
peak_quantile_pct_top(top_pct) == top_pct

\* 1 - TOP_PEAK_PCT
peak_quantile_pct(top_pct) == 100 - top_pct

\* day_slots[day_slots["Sales"] >= peak_thresh]
at_least(rows, thresh) == SelectSeq(rows, LAMBDA r : 100 * r.Sales >= thresh)

\* day_slots[day_slots["Sales"] <= slow_thresh]
at_most(rows, thresh) == SelectSeq(rows, LAMBDA r : 100 * r.Sales <= thresh)

(***************************************************************************)
(* Specification of the selected day's classification                      *)
(***************************************************************************)
MaxSlots == 3

slot_rows(sales) == [i \in 1..Len(sales) |-> [Time_slot |-> i, Sales |-> sales[i]]]

TenSlots == <<10, 20, 30, 40, 50, 60, 70, 80, 90, 100>>
\* a day whose low and high quantiles can coincide below its best slot

Days ==
    {slot_rows(TenSlots), slot_rows(<<10, 10, 30, 10, 10>>)}
        \cup { slot_rows(s) : s \in UNION { [1..n -> {10, 20, 30}] : n \in 1..MaxSlots } }

InitSlots ==
    /\ pc = "day_selected"
    /\ day_slots \in Days
    /\ TOP_PEAK_PCT \in 1..30
    /\ BOTTOM_SLOW_PCT \in 1..50
    /\ peak_thresh = None /\ slow_thresh = None /\ peaks = None /\ slows = None
    /\ day_data = None /\ labeled = None
    /\ Idle("slots")

\* the thresholds and the two tables of the day drill-down
ClassifySlots ==
    /\ pc = "day_selected"
    /\ LET high == quantile(day_slots, peak_quantile_pct(TOP_PEAK_PCT))
           low == quantile(day_slots, BOTTOM_SLOW_PCT)
       IN  /\ peak_thresh' = high
           /\ slow_thresh' = low
           /\ peaks' = sort_descending(at_least(day_slots, high))
           /\ slows' = sort_ascending(at_most(day_slots, low))
    /\ pc' = "day_classified"
    /\ UNCHANGED <<day_slots, TOP_PEAK_PCT, BOTTOM_SLOW_PCT, day_data, labeled,
                   weekVars, weeklyVars, sheetVars, cacheVars, scanVars>>

NextSlots == ClassifySlots

SpecSlots == InitSlots /\ [][NextSlots]_vars

(***************************************************************************)
(* Peak/slow claims                                                        *)
(***************************************************************************)
sales_of(rows) == {rows[i].Sales : i \in 1..Len(rows)}
slots_of(rows) == {rows[i].Time_slot : i \in 1..Len(rows)}
TenSlotDay ==
    /\ pc = "day_classified"
    /\ day_slots = slot_rows(TenSlots)
    /\ TOP_PEAK_PCT = 10 /\ BOTTOM_SLOW_PCT = 20

\* C7 as stated: with 10% and 20% on the slots 10, 20, ..., 100 the peak set
\* is {90, 100} and the slow set is {10, 20}.
C7_PeakSlowExample ==
    TenSlotDay => sales_of(peaks) = {90, 100} /\ sales_of(slows) = {10, 20}

\* C7 as amended: with 10% and 20% on the slots 10, 20, ..., 100 the
\* interpolated 90th percentile is 91 and the 20th is 28, so the peak set is
\* {100} and the slow set is {10, 20}.
C7_PeakSlowExampleAmended ==
    TenSlotDay =>
        /\ peak_thresh = 9100 /\ slow_thresh = 2800
        /\ sales_of(peaks) = {100} /\ sales_of(slows) = {10, 20}

C7_Witness == TenSlotDay /\ Len(peaks) = 1 /\ Len(slows) = 2

\* C8: a slot is in both the peak and the slow list only if the two
\* thresholds are equal; the peak list holds exactly the slots at or above
\* the high threshold, sorted descending, the slow list exactly those at or
\* below the low threshold, sorted ascending.
C8_OverlapOnlyAtEqualThresholds ==
    pc = "day_classified" =>
        /\ (slots_of(peaks) \cap slots_of(slows) # {}) => peak_thresh = slow_thresh
        /\ \A i \in 1..Len(day_slots) :
              /\ (day_slots[i] \in {peaks[k] : k \in 1..Len(peaks)})
                     <=> (100 * day_slots[i].Sales >= peak_thresh)
              /\ (day_slots[i] \in {slows[k] : k \in 1..Len(slows)})
                     <=> (100 * day_slots[i].Sales <= slow_thresh)
        /\ \A i \in 1..(Len(peaks) - 1) : peaks[i].Sales >= peaks[i + 1].Sales
        /\ \A i \in 1..(Len(slows) - 1) : slows[i].Sales <= slows[i + 1].Sales

\* A day of several slots, some in both lists, some in one only
C8_Witness ==
    /\ pc = "day_classified"
    /\ slots_of(peaks) \cap slots_of(slows) # {}
    /\ Len(peaks) >= 2
    /\ slots_of(peaks) # slots_of(slows)
    /\ peaks[1].Sales > peaks[Len(peaks)].Sales

(***************************************************************************)
(* dashboard.py: parse_times and load_day_sheet                            *)
(***************************************************************************)
NaT == [t |-> "nat", hour |-> 0, minute |-> 0]

\* the fields of s between its colons
RECURSIVE split_colon(_)
split_colon(s) ==
    IF \A i \in 1..Len(s) : s[i] # ":" THEN <<s>>
    ELSE LET i == CHOOSE k \in 1..Len(s) : s[k] = ":" /\ \A j \in 1..(k - 1) : s[j] # ":"
         IN  <<SubSeq(s, 1, i - 1)>> \o split_colon(SubSeq(s, i + 1, Len(s)))

\* %I: 1[0-2]|0[1-9]|[1-9]
is_hour_12(f) ==
    /\ is_digits(f) /\ Len(f) \in {1, 2}
    /\ int_of(f) \in 1..12
    /\ Len(f) = 1 => int_of(f) \in 1..9
\* %M and %S: [0-5]\d|\d
is_sixtieth(f) == is_digits(f) /\ Len(f) \in {1, 2} /\ int_of(f) \in 0..59

\* pd.to_datetime(s, format="%I:%M:%S%p" or "%I:%M%p", errors="coerce") of one
\* text: the hour (0-23) and the minute, or NaT when the whole text does not
\* match the format
strptime(s, with_seconds) ==
    LET n == Len(s)
        suffix == IF n >= 2 THEN str_lower(SubSeq(s, n - 1, n)) ELSE <<>>
        fields == IF n >= 2 THEN split_colon(SubSeq(s, 1, n - 2)) ELSE <<>>
        wanted == IF with_seconds THEN 3 ELSE 2
    IN  IF /\ suffix \in {<<"a", "m">>, <<"p", "m">>}
           /\ Len(fields) = wanted
           /\ is_hour_12(fields[1])
           /\ \A i \in 2..wanted : is_sixtieth(fields[i])
        THEN LET h == int_of(fields[1]) % 12
             IN  [t |-> "time",
                  hour |-> IF suffix = <<"p", "m">> THEN h + 12 ELSE h,
                  minute |-> int_of(fields[2])]
        ELSE NaT

\* every text parsed by whichever of the two formats matches it
parse_times_either(column) ==
    [i \in 1..Len(column) |->
        IF strptime(str_strip(astype_str(column[i])), TRUE) # NaT
        THEN strptime(str_strip(astype_str(column[i])), TRUE)
        ELSE strptime(str_strip(astype_str(column[i])), FALSE)]

\* parse_times: the format with seconds, and only when it parses no text of
\* the column at all the format without
parse_times(column) ==
    LET s == [i \in 1..Len(column) |-> str_strip(astype_str(column[i]))]
        t == [i \in 1..Len(s) |-> strptime(s[i], TRUE)]
    IN  IF \A i \in 1..Len(t) : t[i] = NaT
        THEN [i \in 1..Len(s) |-> strptime(s[i], FALSE)]
        ELSE t

two_digits(n) == <<DigitChars[(n \div 10) + 1], DigitChars[(n % 10) + 1]>>

\* strftime("%H:%M")
strftime_HM(t) == two_digits(t.hour) \o <<":">> \o two_digits(t.minute)

\* load_day_sheet, from the table with its time column and its Total column:
\* the rows whose time parses and whose Total is a number
load_day_sheet(grid) ==
    LET t == parse_times([i \in 1..Len(grid) |-> grid[i][1]])
        all == [i \in 1..Len(grid) |->
                   [Time |-> IF t[i] # NaT THEN strftime_HM(t[i]) ELSE <<>>,
                    Total |-> to_num(grid[i][2]),
                    parsed |-> t[i] # NaT]]
        kept == SelectSeq(all, LAMBDA r : r.parsed /\ r.Total # NaN)
    IN  [i \in 1..Len(kept) |-> [Time |-> kept[i].Time, Total |-> kept[i].Total.n]]

(***************************************************************************)
(* Specification of the sheet loaders: one sheet, one loader               *)
(***************************************************************************)
MaxRows == 2

SalesHeaders ==
    { <<Str("Time_slots"), Str("Sales Net VAT"), Str("Transactions")>>,
      <<Str("Time Slots"), Str("Sales")>>,
      <<Str("time_slots"), Str("Total")>> }

SlotLabelCells ==
    {Str("11:00 AM"), Str("Total"), Str(" TOTAL "), Str("  "), NaN}
SalesCells == {Num(10), Num(-5), Str("x")}

\* the rows below a header of that many columns
SalesRows(width) ==
    IF width = 3
    THEN { <<l, s, x>> : l \in SlotLabelCells, s \in SalesCells, x \in {Num(2), Str("x")} }
    ELSE { <<l, s>> : l \in SlotLabelCells, s \in SalesCells }

\* the rows of a traffic sheet: the time column and the Total column
TrafficRows ==
    { <<l, v>> : l \in {Str("11:45:00AM"), Str("1:05PM"), Str("1:05 PM"), Str("Total"),
                        Str(" total "), NaN},
                 v \in {Num(7), Num(0), NaN} }

\* one sheet read: a sheet of the sales workbook (a slot table under its
\* header row, or rows with no header row above them) or a sheet of the
\* traffic workbook
InitSheet ==
    /\ pc = "sheet_read"
    /\ \E n \in 0..MaxRows :
          \/ \E h \in SalesHeaders : \E rows \in [1..n -> SalesRows(Len(h))] :
                raw_df = [kind |-> "sales", grid |-> <<h>> \o rows]
          \/ \E rows \in [1..n -> SalesRows(2)] :
                raw_df = [kind |-> "sales", grid |-> rows]
          \/ \E rows \in [1..n -> TrafficRows] :
                raw_df = [kind |-> "traffic", grid |-> rows]
    /\ out = None /\ clean = None
    /\ Idle("sheet")

\* slots = extract_timeslot_table(raw)
ExtractTimeslotTable ==
    /\ pc = "sheet_read"
    /\ raw_df.kind = "sales"
    /\ out' = extract_timeslot_table(raw_df.grid)
    /\ pc' = "slots_extracted"
    /\ UNCHANGED <<raw_df, clean, weekVars, weeklyVars, slotVars, cacheVars, scanVars>>

\* day_df = load_day_sheet(xls, day)
LoadDaySheet ==
    /\ pc = "sheet_read"
    /\ raw_df.kind = "traffic"
    /\ clean' = load_day_sheet(raw_df.grid)
    /\ pc' = "day_loaded"
    /\ UNCHANGED <<raw_df, out, weekVars, weeklyVars, slotVars, cacheVars, scanVars>>

NextSheet == ExtractTimeslotTable \/ LoadDaySheet

SpecSheet == InitSheet /\ [][NextSheet]_vars

(***************************************************************************)
(* Slot-table claims                                                       *)
(***************************************************************************)
total_key == <<"t", "o", "t", "a", "l">>

\* a label no slot may carry: "total" in any case once trimmed, blank, "nan"
is_summary_label(label) ==
    LET trimmed == str_strip(label)
    IN  str_lower(trimmed) = total_key \/ trimmed = <<>> \/ trimmed = <<"n", "a", "n">>

\* the rows of the sheet below its header row
data_rows == SubSeq(raw_df.grid, 2, Len(raw_df.grid))

\* C9: whatever the sheet, no row of the slot table built by either loader
\* has a label that, trimmed, is "total" in any case, or is blank or "nan".
C9_NoSummaryRow ==
    /\ pc = "slots_extracted" =>
          \A i \in 1..Len(out) : ~is_summary_label(out[i].Time_slot)
    /\ pc = "day_loaded" =>
          \A i \in 1..Len(clean) : ~is_summary_label(clean[i].Time)

\* A sheet with a summary row in upper case among its slots, and a table
\* that keeps the slots
C9_Witness ==
    /\ pc = "slots_extracted"
    /\ out # <<>>
    /\ \E i \in 1..Len(data_rows) :
          /\ data_rows[i][1].t = "str"
          /\ str_strip(chars(data_rows[i][1].s)) # total_key
          /\ cell_key(data_rows[i][1]) = total_key

\* C10: every row of the slot table has sales >= 0 and transactions >= 0,
\* and its average ticket is sales / transactions when transactions > 0 and
\* 0 otherwise.
C10_SlotRowRanges ==
    pc = "slots_extracted" =>
        \A i \in 1..Len(out) :
            /\ out[i].Sales >= 0
            /\ out[i].Transactions >= 0
            /\ out[i].Avg_Ticket =
                   IF out[i].Transactions > 0
                   THEN Ratio(out[i].Sales, out[i].Transactions)
                   ELSE <<0, 1>>

(***************************************************************************)
(* Specification of one run over a workbook of uneven sheets: dates that   *)
(* do not parse, control sections with rows missing, slot tables           *)
(***************************************************************************)
\* a date row, a date row that names no calendar date, or no date row

\* a full control section, one with rows missing, one of a day without sales

\* no slot table, or a slot table with its summary row

ReportSheets ==
    { d \o k \o t :
        d \in { date_rows("2025-01-02"), date_rows("2025-01-09"), date_rows("2025-02-30"), <<>> },
        k \in
        { control_rows(1100, 100, 1000, 1000, 0) \o tender_rows(500, 0),
          << kv("Run Financial Control Report", NaN),
             kv("Total Discounts", Num(Dollars(10))),
             kv("Gross Sales After Discounts", Num(Dollars(400))),
             kv("Sales Net VAT", Num(Dollars(376))) >> \o tender_rows(300, 100),
          control_rows(0, 0, 0, 0, 0) \o tender_rows(0, 0) },
        t \in
        { <<>>,
          << <<Str("Time_slots"), Str("Sales Net VAT"), Str("Transactions")>>,
             <<Str("11:00 AM"), Num(10), Num(2)>>,
             <<Str("1:05PM"), Num(20), Num(0)>>,
             <<Str("Total"), Num(30), Num(2)>> >>,
          << <<Str("Time_slots"), Str("Sales Net VAT"), Str("Transactions")>>,
             <<Str("11:00 AM"), Num(30), Num(3)>> >>,
          << <<Str("Time_slots"), Str("Total"), Str("Transactions")>>,
             <<Str("11:00 AM"), Num(30), Num(3)>> >> } }

InitReport ==
    /\ pc = "load"
    /\ \E n \in 1..MaxSheets : \E raws \in [1..n -> ReportSheets] : workbook = named(raws)
    /\ fin_df = None /\ weekly_data = None
    /\ getapp_cc_by_week = None /\ sales_tax_by_week = None
    /\ ARAMARK_COMMISSION_RATE = None /\ CREDIT_CARD_FEE_RATE = None
    /\ SALES_TAX_RATE = None
    /\ slots_df = None /\ fin_columns = None /\ raised = ""
    /\ week_row = None /\ display_daily = None
    /\ Idle("weekly")

SpecReport == InitReport /\ [][NextWeekly]_vars

(***************************************************************************)
(* Workbook claims                                                         *)
(***************************************************************************)
\* the sheets whose date text, or whose name when they have no date row,
\* parses to a calendar date
parsable_sheets ==
    {i \in 1..Len(workbook) : to_datetime(fin_row(workbook[i])["Date"]) # 0}
daily_rows_of(name) == SelectSeq(fin_df, LAMBDA r : r["Sheet"] = name)
slot_rows_of(name) == SelectSeq(slots_df, LAMBDA r : r.Sheet = name)

\* C11: a sheet whose date does not parse contributes no row to the daily
\* table and none to the slot table, every other sheet contributes its daily
\* row and its slot rows, the load completes without error, and every slot
\* row's date is the date of a daily row.
C11_UnparsableDateExcluded ==
    /\ pc = "raised" => raised # "ValueError"
    /\ pc = "weekly" =>
          /\ \A i \in 1..Len(workbook) :
                /\ Len(daily_rows_of(workbook[i].name)) =
                       IF i \in parsable_sheets THEN 1 ELSE 0
                /\ Len(slot_rows_of(workbook[i].name)) =
                       IF i \in parsable_sheets
                       THEN Len(extract_timeslot_table(workbook[i].raw)) ELSE 0
          /\ \A k \in 1..Len(slots_df) :
                \E i \in 1..Len(fin_df) : fin_df[i]["Date"] = slots_df[k].Date

\* a sheet layout without a slot table: no row whose first cell is the
\* marker, or a marker row in which no cell names a sales column
marker_rows(raw) == {i \in 1..Len(raw) : is_time_key(cell_key(raw[i][1]))}
names_sales(header) ==
    \E j \in 1..Len(header) :
        /\ ~is_time_key(cell_key(header[j]))
        /\ is_sales_key(cell_key(header[j]))
no_slot_layout(raw) ==
    \/ marker_rows(raw) = {}
    \/ \E i \in marker_rows(raw) :
          /\ \A k \in marker_rows(raw) : i <= k
          /\ ~names_sales(raw[i])
load_failed == pc = "raised" /\ raised = "ValueError"
after_load == pc = "weekly" \/ load_failed
date_parses(sheet) ==
    to_datetime(get(extract_date_info(sheet.raw), "date", sheet.name)) # 0

C12_MissingMetricNoFailure ==
    /\ raised # "KeyError"
    /\ pc = "weekly_done" =>
          \A w \in weekly_rows :
              \A c \in {"Gross Sales Before Discounts", "Total Discounts",
                        "Gross Sales After Discounts", "Sales Net VAT"} :
                  w[c] = sum_col(group_rows(fin_df, w["Week_Label"]), c)

\* a float that is a number or null, never an infinity
null_guarded(x) == x[2] # 0 \/ x = <<0, 0>>

\* the weekly row the selected week's percentages were taken from
selected_row == CHOOSE w \in weekly_rows : w["Week_Label"] = week_row.Week_Label

\* C14: every ratio is null-guarded: the discount rate of a week whose gross
\* sales before discounts are 0 is null, and so are the selected week's
\* percentages of commissionable sales and of Sales Net VAT when those are 0;
\* none is ever infinite.
C14_RatiosNullGuarded ==
    pc \in {"trends_done", "daily_done"} =>
        /\ \A w \in weekly_rows :
              /\ null_guarded(w["Discount_Rate"])
              /\ w["Gross Sales Before Discounts"] = 0 => w["Discount_Rate"] = <<0, 0>>
        /\ null_guarded(week_row.ARA_of_Commissionable)
        /\ null_guarded(week_row.Niko_of_Sales)
        /\ null_guarded(week_row.ARA_of_Sales)
        /\ null_guarded(week_row.CC_Fee_of_Sales)
        /\ selected_row["Total_Commissionable"] = 0 =>
              week_row.ARA_of_Commissionable = <<0, 0>>
        /\ selected_row["Sales Net VAT"] = 0 =>
              /\ week_row.Niko_of_Sales = <<0, 0>>
              /\ week_row.ARA_of_Sales = <<0, 0>>

\* C18: in every daily record each metric taken by the financial-control
\* extractor keeps its extracted value; with a "tax collected" key in the
\* control section the record's "Sales Tax Collected" is that mirrored value.
C18_MapsDoNotOverwrite ==
    pc = "weekly" =>
        \A i \in 1..Len(workbook) :
            LET fin == extract_financial_metrics(workbook[i].raw)
            IN  \A r \in {fin_df[k] : k \in 1..Len(fin_df)} :
                    r["Sheet"] = workbook[i].name =>
                        \A key \in DOMAIN fin : r[key] = fin[key]

\* C19: each daily row's slot totals are the sums over that record's own
\* slot rows, so the slot sales summed over the daily table are the slot
\* table's total sales; the day's average ticket is their ratio, and a day
\* without slot rows has no slot-derived fields.
C19_SlotTotalsPerRecord ==
    pc = "weekly" =>
        /\ \A i \in 1..Len(fin_df) :
              LET own == slot_rows_of(fin_df[i]["Sheet"])
              IN  IF own = <<>>
                  THEN DOMAIN fin_df[i] \cap SlotColumns = {}
                  ELSE /\ fin_df[i]["Slot_Sales_Total"] = sum_field(own, "Sales")
                       /\ fin_df[i]["Slot_Transactions_Total"] =
                              sum_field(own, "Transactions")
                       /\ sum_field(own, "Transactions") # 0 =>
                              fin_df[i]["Avg_Ticket_Day"] =
                                  float_div(sum_field(own, "Sales"),
                                            sum_field(own, "Transactions"))
        /\ sum_col(fin_df, "Slot_Sales_Total") = sum_field(slots_df, "Sales")

\* the transaction count of a week: the slot transactions of its days
week_transactions(w) ==
    sum_col(group_rows(fin_df, w["Week_Label"]), "Slot_Transactions_Total")

\* C20: with the weeks sorted by week start, each week after the first has a
\* sales growth equal to the percent change of its sales and a transaction
\* growth equal to the percent change of its transaction count against the
\* week before; the first week's two growth values are null.
C20_WeekOverWeekGrowth ==
    pc = "trends_done" =>
        \A i \in 1..Len(weekly_data) :
            IF i = 1
            THEN /\ weekly_data[i]["WoW_Sales_Growth"] = <<0, 0>>
                 /\ weekly_data[i]["WoW_Txn_Growth"] = <<0, 0>>
            ELSE /\ weekly_data[i - 1]["Week_Start"] <= weekly_data[i]["Week_Start"]
                 /\ weekly_data[i]["WoW_Sales_Growth"] =
                        percent(weekly_data[i]["Sales Net VAT"]
                                    - weekly_data[i - 1]["Sales Net VAT"],
                                weekly_data[i - 1]["Sales Net VAT"])
                 /\ weekly_data[i]["WoW_Txn_Growth"] =
                        percent(week_transactions(weekly_data[i])
                                    - week_transactions(weekly_data[i - 1]),
                                week_transactions(weekly_data[i - 1]))

(***************************************************************************)
(* Claims about the time labels of a traffic sheet                         *)
(***************************************************************************)
\* the time labels of the sheets and the HH:MM text each denotes
TimeOf ==
    ("11:45:00AM" :> <<"1", "1", ":", "4", "5">>) @@ ("1:05PM" :> <<"1", "3", ":", "0", "5">>)
\* the labels written with seconds
WithSeconds == {"11:45:00AM"}

is_time_label(cell) == cell.t = "str" /\ cell.s \in DOMAIN TimeOf
has_seconds(cell) == cell.t = "str" /\ cell.s \in WithSeconds

\* the rows of the sheet whose Total is a number
numeric_rows == SelectSeq(raw_df.grid, LAMBDA r : r[2].t = "num")

\* the loaded table made of these rows of the sheet
day_table(rows) == [i \in 1..Len(rows) |-> [Time |-> TimeOf[rows[i][1].s], Total |-> rows[i][2].n]]

column_with_seconds == \E i \in 1..Len(raw_df.grid) : has_seconds(raw_df.grid[i][1])

Paths == {"a.xlsx", "b.xlsx"}

\* the workbooks a file may hold: one sheet, its date parsable or not
FileContents ==
    { named(<<date_rows(d) \o k>>) : d \in {"2025-01-02", "2025-02-30"}, k \in SheetKinds }

InitCache ==
    /\ pc = "run"
    /\ files \in [Paths -> FileContents]
    /\ cache = <<>>
    /\ returned = None
    /\ Idle("cache")

\* the workbook under a path is replaced by another one
ModifyFile(path, content) ==
    /\ content # files[path]
    /\ files' = [files EXCEPT ![path] = content]
    /\ UNCHANGED <<pc, cache, returned, weekVars, weeklyVars, slotVars, sheetVars, scanVars>>

\* a script run calls load_workbook(str(file_path)): st.cache_data looks the
\* call up by its argument, the path text; only a call it has no entry for
\* reads the file, and a call that raises leaves no entry
Load(path) ==
    /\ IF path \in DOMAIN cache
       THEN /\ returned' = [path |-> path, tables |-> cache[path]]
            /\ UNCHANGED cache
       ELSE \E result \in {load_workbook(files[path])} :
               /\ returned' = [path |-> path, tables |-> result]
               /\ cache' = IF result.raised = "" THEN (path :> result) @@ cache ELSE cache
    /\ UNCHANGED <<pc, files, weekVars, weeklyVars, slotVars, sheetVars, scanVars>>

NextCache ==
    \/ \E path \in Paths : Load(path)
    \/ \E path \in Paths : \E content \in FileContents : ModifyFile(path, content)

SpecCache == InitCache /\ [][NextCache]_vars

\* C13: over any sequence of loads and workbook modifications, every load
\* returns the tables computed from the workbook that is under the path at
\* the time of the call; a cached result is never returned for a path whose
\* workbook differs from the one that produced it.
C13_LoadReturnsCurrentContent ==
    [][\A path \in Paths :
          Load(path) => returned'.tables = load_workbook(files[path])]_vars

(***************************************************************************)
(* Specification of the extractors: one sheet of key/value rows            *)
(***************************************************************************)
MaxScanRows == 3

\* the section marker rows, the header rows, and the metric and tender rows
\* with a number or a text as value
ScanRows ==
    { kv(m, NaN) : m \in {"Run Financial Control Report", "Tender Summary",
                          "Payment Summary", "Day Part Summary"} }
        \cup { kv("Name", Str("Amount")), kv("Type", Str("Amount")) }
        \cup { kv(k, Num(100)) : k \in {"Sales Net VAT", "Credit Card", "Cash", "Cash Credit"} }
        \cup { kv(k, Str("x")) : k \in {"Sales Net VAT", "Cash"} }

InitScan ==
    /\ pc = "sheet_rows"
    /\ \E n \in 0..MaxScanRows : sheet_raw \in [1..n -> ScanRows]
    /\ sheet_fin = None /\ sheet_payment = None
    /\ Idle("scan")

\* fin = extract_financial_metrics(raw)
ExtractFinancialMetrics ==
    /\ pc = "sheet_rows"
    /\ sheet_fin' = extract_financial_metrics(sheet_raw)
    /\ pc' = "fin_extracted"
    /\ UNCHANGED <<sheet_raw, sheet_payment, weekVars, weeklyVars, slotVars, sheetVars, cacheVars>>

\* payment = extract_payment_data(raw)
ExtractPaymentData ==
    /\ pc = "fin_extracted"
    /\ sheet_payment' = extract_payment_data(sheet_raw)
    /\ pc' = "payment_extracted"
    /\ UNCHANGED <<sheet_raw, sheet_fin, weekVars, weeklyVars, slotVars, sheetVars, cacheVars>>

NextScan == ExtractFinancialMetrics \/ ExtractPaymentData

SpecScan == InitScan /\ [][NextScan]_vars

(***************************************************************************)
(* Claims about the extractors                                             *)
(***************************************************************************)
\* the row's key, lower-cased, contains the text
key_has(r, text) == contains(str_lower(key_text(r[1])), chars(text))
is_numeric(r) == r[2].t = "num"

\* the least row number of a set, or the number after the last row
first_or_end(hits) == IF hits = {} THEN Len(sheet_raw) + 1 ELSE first_of(hits)

\* the first row whose key contains the start marker, 0 without one, and the
\* first later row whose key contains a stop marker
control_start == first_of({i \in 1..Len(sheet_raw) :
                              key_has(sheet_raw[i], "run financial control report")})
control_stop ==
    first_or_end({i \in (control_start + 1)..Len(sheet_raw) :
                     \/ key_has(sheet_raw[i], "tender summary")
                     \/ key_has(sheet_raw[i], "payment summary")
                     \/ key_has(sheet_raw[i], "day part summary")})

\* C16: extract_financial_metrics returns exactly the numeric-valued rows
\* after the first row whose key contains "run financial control report" and
\* before the first later row whose key contains "tender summary", "payment
\* summary" or "day part summary"; rows outside that window and rows with a
\* non-numeric value contribute nothing.
C16_ControlWindow ==
    pc # "sheet_rows" =>
        {<<k, sheet_fin[k]>> : k \in DOMAIN sheet_fin}
            = IF control_start = 0 THEN {}
              ELSE {<<sheet_raw[i][1].s, sheet_raw[i][2].n>> :
                       i \in {j \in (control_start + 1)..(control_stop - 1) :
                                 is_numeric(sheet_raw[j])}}

\* the first row whose key contains a tender marker, 0 without one, and the
\* first later row whose key contains "day part"
tender_start == first_of({i \in 1..Len(sheet_raw) :
                             \/ key_has(sheet_raw[i], "tender summary")
                             \/ key_has(sheet_raw[i], "payment summary")})
tender_stop ==
    first_or_end({i \in (tender_start + 1)..Len(sheet_raw) :
                     /\ key_has(sheet_raw[i], "day part")
                     /\ ~key_has(sheet_raw[i], "tender summary")
                     /\ ~key_has(sheet_raw[i], "payment summary")})

\* the numeric-valued rows of the tender section, header keys skipped
tender_rows_read ==
    IF tender_start = 0 THEN <<>>
    ELSE SelectSeq(SubSeq(sheet_raw, tender_start + 1, tender_stop - 1),
                   LAMBDA r : /\ is_numeric(r)
                              /\ ~key_has(r, "tender summary")
                              /\ ~key_has(r, "payment summary")
                              /\ str_lower(key_text(r[1])) \notin {chars("type"), chars("amount")})

RECURSIVE sum_values(_)
sum_values(rows) == IF rows = <<>> THEN 0 ELSE Head(rows)[2].n + sum_values(Tail(rows))

\* C17: over the rows after the first key containing "tender summary" or
\* "payment summary" and before the first following key containing "day
\* part", header keys "type" and "amount" skipped, Credit Card is the sum of
\* the numeric values of all rows whose key contains "credit" and Cash the
\* sum for all rows whose key contains "cash"; an unpopulated bucket is 0.
C17_PaymentBuckets ==
    pc = "payment_extracted" =>
        /\ sheet_payment["Credit Card"]
              = sum_values(SelectSeq(tender_rows_read, LAMBDA r : key_has(r, "credit")))
        /\ sheet_payment["Cash"]
              = sum_values(SelectSeq(tender_rows_read, LAMBDA r : key_has(r, "cash")))

\* C17 (amended): every row of the tender section adds to one bucket at most:
\* Credit Card is the sum for the rows whose key contains "credit", Cash the
\* sum for the rows whose key contains "cash" and not "credit"; Sales Tax
\* Collected stays 0, and so does a bucket that no row populates.
C17_OneBucketPerRow ==
    pc = "payment_extracted" =>
        /\ sheet_payment["Credit Card"]
              = sum_values(SelectSeq(tender_rows_read, LAMBDA r : key_has(r, "credit")))
        /\ sheet_payment["Cash"]
              = sum_values(SelectSeq(tender_rows_read,
                               LAMBDA r : key_has(r, "cash") /\ ~key_has(r, "credit")))
        /\ sheet_payment["Sales Tax Collected"] = 0
        /\ DOMAIN sheet_payment = {"Credit Card", "Cash", "Sales Tax Collected"}

\* a tender section with a "Cash Credit" row and a "Cash" row, both numeric
C17_Witness ==
    /\ pc = "payment_extracted"
    /\ Len(tender_rows_read) = 2
    /\ \E i, j \in 1..2 :
          /\ tender_rows_read[i][1] = Str("Cash Credit")
          /\ tender_rows_read[j][1] = Str("Cash")
    /\ sheet_payment["Credit Card"] = 100
    /\ sheet_payment["Cash"] = 100

(***************************************************************************)
(* dashboard.py: the drill-down and the overview of the selected day       *)
(***************************************************************************)
\* day_data["Total"]: the series the quantiles and the two comparisons
\* read, one entry per row (Time_slot and Sales hold Time and Total)
total_series(rows) ==
    [i \in 1..Len(rows) |-> [Time_slot |-> rows[i].Time, Sales |-> rows[i].Total]]

\* labeled["Label"] = "Normal"
label_normal(rows) ==
    [i \in 1..Len(rows) |->
        [Time |-> rows[i].Time, Total |-> rows[i].Total, Label |-> "Normal"]]

\* labeled.loc[labeled["Total"] >= peak_thresh, "Label"] = "Peak"
label_peak(rows, thresh) ==
    [i \in 1..Len(rows) |->
        IF 100 * rows[i].Total >= thresh
        THEN [rows[i] EXCEPT !.Label = "Peak"] ELSE rows[i]]

\* labeled.loc[labeled["Total"] <= slow_thresh, "Label"] = "Slow"
label_slow(rows, thresh) ==
    [i \in 1..Len(rows) |->
        IF 100 * rows[i].Total <= thresh
        THEN [rows[i] EXCEPT !.Label = "Slow"] ELSE rows[i]]

\* the three assignments in the order of the script
staffing_labels_peak_last(rows, high, low) ==
    label_peak(label_slow(label_normal(rows), low), high)
staffing_labels(rows, high, low) ==
    label_slow(label_peak(label_normal(rows), high), low)

(***************************************************************************)
(* Specification of the selected day's overview                            *)
(***************************************************************************)
\* a day of the traffic workbook has at least one row: load_all_days skips
\* the sheets whose table is empty
InitOverview ==
    /\ pc = "day_chosen"
    /\ \E n \in 1..MaxSlots : \E totals \in [1..n -> {10, 20, 30}] :
          day_data = [i \in 1..n |-> [Time |-> i, Total |-> totals[i]]]
    /\ TOP_PEAK_PCT \in 1..30
    /\ BOTTOM_SLOW_PCT \in 1..50
    /\ peak_thresh = None /\ slow_thresh = None /\ peaks = None /\ slows = None
    /\ day_slots = None /\ labeled = None
    /\ Idle("slots")

\* the thresholds, the two tables and the labels of the selected day
Overview ==
    /\ pc = "day_chosen"
    /\ \E series \in {total_series(day_data)} :
          \E high \in {quantile(series, peak_quantile_pct(TOP_PEAK_PCT))} :
              \E low \in {quantile(series, BOTTOM_SLOW_PCT)} :
                  /\ peak_thresh' = high
                  /\ slow_thresh' = low
                  /\ peaks' = sort_descending(at_least(series, high))
                  /\ slows' = sort_ascending(at_most(series, low))
                  /\ labeled' = staffing_labels(day_data, high, low)
    /\ pc' = "overview"
    /\ UNCHANGED <<day_data, day_slots, TOP_PEAK_PCT, BOTTOM_SLOW_PCT,
                   weekVars, weeklyVars, sheetVars, cacheVars, scanVars>>

SpecOverview == InitOverview /\ [][Overview]_vars

(***************************************************************************)
(* Claims about the staffing labels                                        *)
(***************************************************************************)
is_peak(row) == 100 * row.Total >= peak_thresh
is_slow(row) == 100 * row.Total <= slow_thresh
in_peaks(row) == \E k \in 1..Len(peaks) : peaks[k].Time_slot = row.Time

\* C22: every row of the selected day carries one label: Slow when its
\* total is at most the slow threshold, else Peak when it is at least the
\* peak threshold, else Normal; a row meeting both thresholds is labelled
\* Slow and is listed in the peak table.
C22_LabelOrder ==
    pc = "overview" =>
        /\ Len(labeled) = Len(day_data)
        /\ \A i \in 1..Len(day_data) :
              /\ labeled[i].Time = day_data[i].Time
              /\ labeled[i].Total = day_data[i].Total
              /\ labeled[i].Label =
                     IF is_slow(day_data[i]) THEN "Slow"
                     ELSE IF is_peak(day_data[i]) THEN "Peak" ELSE "Normal"
              /\ is_peak(day_data[i]) /\ is_slow(day_data[i]) =>
                     labeled[i].Label = "Slow" /\ in_peaks(day_data[i])

\* a single-slot day: its only slot meets both thresholds, is labelled Slow
\* and is listed in the peak table
C22_Witness ==
    /\ pc = "overview"
    /\ Len(day_data) = 1
    /\ is_peak(day_data[1]) /\ is_slow(day_data[1])
    /\ labeled[1].Label = "Slow"
    /\ Len(peaks) = 1

====
